---------------------------- MODULE Spec2Model ----------------------------
(***************************************************************************)
(* A model of dm36xpackager.py: the MBR builder, the RBL/UBL descriptor    *)
(* builders, the layout compositor (locate), the two image builders, the   *)
(* packager's main flow with its output files, and the installer script    *)
(* that build_script renders (fresh-install and update mode).              *)
(*                                                                         *)
(* Byte buffers (Python bytearray) are sequences of naturals below 256;    *)
(* Python's 0-based offset k is index k+1 of the sequence.                 *)
(***************************************************************************)
EXTENDS Integers, Sequences, FiniteSets, TLC

VARIABLES
    memory,      \* SpecLocate: the bytearray the compositor grows
    calls,       \* SpecLocate: number of locate calls made so far
    last,        \* SpecLocate: the last locate call (arguments, outcome)
    memory_map,  \* the dict load_memory_map returns
    mbr_a,       \* SpecMbr: result of build_mbr_a
    mbr_b,       \* SpecMbr: result of build_mbr_b
    mbr_pc,      \* SpecMbr: position of the MBR build
    args,        \* Spec: the parsed command line (class Args)
    files,       \* Spec: the input binaries on disk
    pc,          \* Spec: position in __main__
    fwfile,      \* Spec: the firmware package file (args.fwfile) on disk
    imgfile,     \* Spec: the flat image file (args.imgfile) on disk, its
                 \*       bytes held in blocks of BLOCK_SIZE
    archive,     \* SpecInstaller: the entries of the firmware package given
                 \*       to install.sh with -a
    opts,        \* SpecInstaller: the command line of install.sh and the
                 \*       state of the destination (writable, mounted)
    dev_mbr,     \* SpecInstaller: block 0 of the destination device
    mbr_at_start,\* SpecInstaller: block 0 when the current run started
    writes,      \* SpecInstaller: the dd writes of the current run, in order
    runs,        \* SpecInstaller: runs of install.sh started so far
    sh,          \* SpecInstaller: the script's position and shell variables
    bg,          \* SpecInstaller: the background sha1sum of update mode
    tmp          \* SpecInstaller: $tmpdir: the fifo and the checksum file

locVars == <<memory, calls, last>>
mbrVars == <<mbr_a, mbr_b, mbr_pc>>
pkgVars == <<args, files, pc, fwfile, imgfile>>
instVars == <<archive, opts, dev_mbr, mbr_at_start, writes, runs, sh, bg, tmp>>
vars == <<memory, calls, last, memory_map, mbr_a, mbr_b, mbr_pc,
          args, files, pc, fwfile, imgfile,
          archive, opts, dev_mbr, mbr_at_start, writes, runs, sh, bg, tmp>>

----------------------------------------------------------------------------
(* Bounds of the model *)

MaxCalls == 2       \* locate calls in one run of SpecLocate
MaxOffset == 1      \* largest block_offset tried in SpecLocate
MaxCount == 1       \* largest block_count tried in SpecLocate
MaxSigCount == 1    \* Spec: blocks of a descriptor region
MaxBinCount == 2    \* Spec: blocks of a loader's region
MaxChunks == 2      \* SpecInstaller: chunks the rootfs stream flows in
MaxRuns == 2        \* SpecInstaller: consecutive runs of install.sh
MaxLbaStep == 2     \* SpecMbr: block addresses up to MaxLbaStep * 1024 cylinders

----------------------------------------------------------------------------
(* Program constants *)

BLOCK_SIZE == 512

----------------------------------------------------------------------------
(* Byte-buffer helpers *)

Min(a, b) == IF a < b THEN a ELSE b
Max(a, b) == IF a > b THEN a ELSE b

\* bytearray(n): n zero bytes
Zeros(n) == [i \in 1..n |-> 0]

\* An input blob of n bytes, none zero, each depending on its position.
Blob(n, tag) == [i \in 1..n |-> ((i + 7 * tag) % 255) + 1]

\* Python's  m[start:stop] = c  on a bytearray: the slice (clamped to the
\* buffer) is replaced by all of c, whatever the two lengths are.
SetSlice(m, start, stop, c) ==
    LET lo == Min(start, Len(m))
        hi == Max(lo, Min(stop, Len(m)))
    IN SubSeq(m, 1, lo) \o c \o SubSeq(m, hi + 1, Len(m))

\* m[start:stop]
Slice(m, start, stop) ==
    LET lo == Min(start, Len(m))
        hi == Max(lo, Min(stop, Len(m)))
    IN SubSeq(m, lo + 1, hi)

\* The bytes of a file as the disk holds them: blocks of BLOCK_SIZE bytes,
\* the last one possibly shorter.
FileBlocks(b) ==
    [k \in 1..((Len(b) + BLOCK_SIZE - 1) \div BLOCK_SIZE) |->
        SubSeq(b, (k - 1) * BLOCK_SIZE + 1, Min(k * BLOCK_SIZE, Len(b)))]

\* The bytes of a file held in blocks.
FileBytes(bl) ==
    LET n == IF Len(bl) = 0 THEN 0
             ELSE (Len(bl) - 1) * BLOCK_SIZE + Len(bl[Len(bl)])
    IN [i \in 1..n |-> bl[((i - 1) \div BLOCK_SIZE) + 1][((i - 1) % BLOCK_SIZE) + 1]]

----------------------------------------------------------------------------
(* The layout compositor *)

\* locate with the buffer extended to the end of the slot instead of the end
\* of the contents.
locate_pad_slot(mem, block_offset, block_count, contents) ==
    LET start == block_offset * BLOCK_SIZE
        end == start + block_count * BLOCK_SIZE
    IN IF Len(contents) > end
       THEN [raised |-> TRUE, memory |-> mem]
       ELSE LET actual_end == Min(end, start + Len(contents))
                bytes_needed == end - Len(mem)
                extended == IF bytes_needed > 0
                            THEN mem \o Zeros(bytes_needed) ELSE mem
            IN [raised |-> FALSE,
                memory |-> SetSlice(extended, start, actual_end, contents)]

\* locate writing  memory[start:] = contents : whatever the buffer held
\* behind the written bytes is dropped.
locate_drop_tail(mem, block_offset, block_count, contents) ==
    LET start == block_offset * BLOCK_SIZE
        end == start + block_count * BLOCK_SIZE
    IN IF Len(contents) > end
       THEN [raised |-> TRUE, memory |-> mem]
       ELSE LET actual_end == Min(end, start + Len(contents))
                bytes_needed == actual_end - Len(mem)
                extended == IF bytes_needed > 0
                            THEN mem \o Zeros(bytes_needed) ELSE mem
            IN [raised |-> FALSE,
                memory |-> SetSlice(extended, start, Len(extended), contents)]

\* locate(memory, block_offset, block_count, contents): raises, or mutates
\* memory in place.  The result is the outcome and the buffer afterwards.
locate(mem, block_offset, block_count, contents) ==
    LET start == block_offset * BLOCK_SIZE
        end == start + block_count * BLOCK_SIZE
    IN IF Len(contents) > end
       THEN [raised |-> TRUE, memory |-> mem]
       ELSE LET actual_end == Min(end, start + Len(contents))
                bytes_needed == actual_end - Len(mem)
                extended == IF bytes_needed > 0
                            THEN mem \o Zeros(bytes_needed) ELSE mem
            IN [raised |-> FALSE,
                memory |-> SetSlice(extended, start, actual_end, contents)]

----------------------------------------------------------------------------
(* SpecLocate: any sequence of placements into one buffer *)

ContentLens == {c * BLOCK_SIZE + d : c \in 0..MaxCount, d \in {0, 1}}

NoCall == [called |-> FALSE, before |-> <<>>, block_offset |-> 0,
           block_count |-> 0, contents |-> <<>>, raised |-> FALSE]

MbrIdle == memory_map = <<>> /\ mbr_a = <<>> /\ mbr_b = <<>> /\ mbr_pc = "idle"

NoFile == [exists |-> FALSE, data |-> <<>>]

PkgIdle ==
    /\ args = <<>> /\ files = <<>> /\ pc = "idle"
    /\ fwfile = NoFile /\ imgfile = NoFile

InstIdle ==
    /\ archive = <<>> /\ opts = <<>> /\ dev_mbr = <<>> /\ mbr_at_start = <<>>
    /\ writes = <<>> /\ runs = 0 /\ sh = <<>> /\ bg = <<>> /\ tmp = <<>>

InitLocate ==
    /\ memory = <<>>
    /\ calls = 0
    /\ last = NoCall
    /\ MbrIdle
    /\ PkgIdle
    /\ InstIdle

Locate ==
    /\ calls < MaxCalls
    /\ \E block_offset \in 0..MaxOffset, block_count \in 0..MaxCount,
          n \in ContentLens :
          LET contents == Blob(n, calls + 1)
              r == locate(memory, block_offset, block_count, contents)
          IN /\ memory' = r.memory
             /\ last' = [called |-> TRUE, before |-> memory,
                         block_offset |-> block_offset,
                         block_count |-> block_count,
                         contents |-> contents, raised |-> r.raised]
    /\ calls' = calls + 1
    /\ UNCHANGED <<memory_map, mbr_a, mbr_b, mbr_pc>>
    /\ UNCHANGED <<pkgVars, instVars>>

NextLocate == Locate

SpecLocate == InitLocate /\ [][NextLocate]_vars

\* The result the compositor's contract describes for a fitting placement.
Reference(old, block_offset, contents) ==
    LET start == block_offset * BLOCK_SIZE
        n == Max(Len(old), start + Len(contents))
    IN [i \in 1..n |->
          IF i > start /\ i <= start + Len(contents) THEN contents[i - start]
          ELSE IF i <= Len(old) THEN old[i] ELSE 0]

\* C1: a placement whose contents are longer than block_count * 512 bytes
\* fails, whatever block_offset is, and leaves the buffer unchanged.
C1_CapacityError ==
    (last.called /\ Len(last.contents) > last.block_count * BLOCK_SIZE)
        => (last.raised /\ memory = last.before)

\* C2: a placement whose contents fit block_count * 512 bytes succeeds and
\* the buffer becomes the reference result: the old buffer, zero-padded up to
\* the end of the written bytes, with the written range replaced by contents.
C2_FittingPlacement ==
    (last.called /\ Len(last.contents) <= last.block_count * BLOCK_SIZE)
        => /\ ~last.raised
           /\ memory = Reference(last.before, last.block_offset, last.contents)
           /\ Len(memory) >= Len(last.before)

\* C2 witness: a fitting placement into a buffer that earlier placements
\* filled past the end of the slot, and one that had to grow the buffer over
\* a gap.
C2_Witness ==
    /\ last.called /\ ~last.raised
    /\ Len(last.contents) = BLOCK_SIZE
    /\ last.block_count = 1
    /\ last.block_offset = 0
    /\ Len(last.before) > BLOCK_SIZE
    /\ Len(memory) = Len(last.before)

----------------------------------------------------------------------------
(* class MBR, build_mbr_a, build_mbr_b *)

FS_TYPE_LINUX == 131          \* 0x83
STORAGE_NUM_HEADS == 255
STORAGE_NUM_SECTORS == 63

\* MBR.__init__: 512 zero bytes, the disk id 11 22 33 44 at offsets 440..443
\* and the signature 55 AA at offsets 510..511.
MBR_init ==
    [i \in 1..512 |->
        CASE i = 441 -> 17
          [] i = 442 -> 34
          [] i = 443 -> 51
          [] i = 444 -> 68
          [] i = 511 -> 85
          [] i = 512 -> 170
          [] OTHER -> 0]

\* Python 2 integer  /  is floor division, as \div is.
lba_to_head(x) == (x \div STORAGE_NUM_SECTORS) % STORAGE_NUM_HEADS

lba_to_sector(x) == (x % STORAGE_NUM_SECTORS) + 1

lba_to_cylinder(x) == x \div (STORAGE_NUM_SECTORS * STORAGE_NUM_HEADS)

lba_to_chs(x) == <<lba_to_cylinder(x), lba_to_head(x), lba_to_sector(x)>>

\* ((c >> 2) & 0xc0) | s : bits 6 and 7 come from c >> 2; s is 1..63, so the
\* or is a sum.
CylHighSector(c, s) == (((c \div 4) % 256) \div 64) * 64 + s

\* x >> (8 * k) & 0xff
ByteOf(x, k) == (x \div (256 ^ k)) % 256

\* The 16 bytes calc_partition writes at mbr_offset .. mbr_offset + 15.
PartitionEntry(start, count, type) ==
    LET start_chs == lba_to_chs(start)
        last_chs == lba_to_chs(start + count - 1)
    IN << 0,
          start_chs[2],
          CylHighSector(start_chs[1], start_chs[3]),
          start_chs[1] % 256,
          type,
          last_chs[2],
          CylHighSector(last_chs[1], last_chs[3]),
          last_chs[1] % 256,
          ByteOf(start, 0), ByteOf(start, 1), ByteOf(start, 2), ByteOf(start, 3),
          ByteOf(count, 0), ByteOf(count, 1), ByteOf(count, 2), ByteOf(count, 3) >>

calc_partition(mbr, mbr_offset, start, count, type) ==
    LET entry == PartitionEntry(start, count, type)
    IN [i \in 1..Len(mbr) |->
          IF i > mbr_offset /\ i <= mbr_offset + 16
          THEN entry[i - mbr_offset] ELSE mbr[i]]

part_offsets == <<446, 462, 478, 494>>

partition(mbr, index, start, count, type) ==
    calc_partition(mbr, part_offsets[index + 1], start, count, type)

\* The keys of the memory map the two MBR builders read.
MbrKeys == {"rootfs_a_partition_start", "rootfs_a_partition_count",
            "rootfs_b_partition_start", "rootfs_b_partition_count",
            "working_partition_start", "working_partition_count",
            "debug_partition_start", "debug_partition_count"}

build_mbr_a(mm) ==
    LET m0 == partition(MBR_init, 0, mm["rootfs_a_partition_start"],
                        mm["rootfs_a_partition_count"], FS_TYPE_LINUX)
        m1 == partition(m0, 1, mm["rootfs_b_partition_start"],
                        mm["rootfs_b_partition_count"], FS_TYPE_LINUX)
        m2 == partition(m1, 2, mm["working_partition_start"],
                        mm["working_partition_count"], FS_TYPE_LINUX)
        m3 == partition(m2, 3, mm["debug_partition_start"],
                        mm["debug_partition_count"], FS_TYPE_LINUX)
    IN m3

\* build_mbr_b with the working and the debug partition exchanged too.
build_mbr_b_tail_swapped(mm) ==
    LET m0 == partition(MBR_init, 0, mm["rootfs_b_partition_start"],
                        mm["rootfs_b_partition_count"], FS_TYPE_LINUX)
        m1 == partition(m0, 1, mm["rootfs_a_partition_start"],
                        mm["rootfs_a_partition_count"], FS_TYPE_LINUX)
        m2 == partition(m1, 2, mm["debug_partition_start"],
                        mm["debug_partition_count"], FS_TYPE_LINUX)
        m3 == partition(m2, 3, mm["working_partition_start"],
                        mm["working_partition_count"], FS_TYPE_LINUX)
    IN m3

build_mbr_b(mm) ==
    LET m0 == partition(MBR_init, 0, mm["rootfs_b_partition_start"],
                        mm["rootfs_b_partition_count"], FS_TYPE_LINUX)
        m1 == partition(m0, 1, mm["rootfs_a_partition_start"],
                        mm["rootfs_a_partition_count"], FS_TYPE_LINUX)
        m2 == partition(m1, 2, mm["working_partition_start"],
                        mm["working_partition_count"], FS_TYPE_LINUX)
        m3 == partition(m2, 3, mm["debug_partition_start"],
                        mm["debug_partition_count"], FS_TYPE_LINUX)
    IN m3

----------------------------------------------------------------------------
(* SpecMbr: the two MBR variants of one memory map *)

\* Block addresses around the CHS boundaries (63 sectors, 63 * 255 blocks a
\* cylinder), around each byte boundary of the 32-bit LBA field, and beyond
\* the 1024 cylinders CHS can address.  All stay below 2^31.
LbaSamples ==
    {0, 1, 62, 63, 16064, 16065, 255, 256, 65535, 65536, 16777215, 16777216}
        \cup {k * 16450560 + 70000 : k \in 1..MaxLbaStep}

CountSamples == {0, 1, 2048, 16450560}

PartitionMap(a_start, a_count, b_start, b_count, w_start, w_count, d_start, d_count) ==
    [rootfs_a_partition_start |-> a_start, rootfs_a_partition_count |-> a_count,
     rootfs_b_partition_start |-> b_start, rootfs_b_partition_count |-> b_count,
     working_partition_start |-> w_start, working_partition_count |-> w_count,
     debug_partition_start |-> d_start, debug_partition_count |-> d_count]

MbrMaps ==
    {PartitionMap(a, c, b, c, w, 2048, 300000, d) :
        a \in LbaSamples, b \in LbaSamples, c \in CountSamples,
        w \in {200000, 16065}, d \in {32, 70000}}

LocIdle == memory = <<>> /\ calls = 0 /\ last = NoCall

InitMbr ==
    /\ memory_map \in MbrMaps
    /\ mbr_a = <<>>
    /\ mbr_b = <<>>
    /\ mbr_pc = "start"
    /\ LocIdle
    /\ PkgIdle
    /\ InstIdle

BuildMbrA ==
    /\ mbr_pc = "start"
    /\ mbr_a' = build_mbr_a(memory_map)
    /\ mbr_pc' = "a_built"
    /\ UNCHANGED <<memory_map, mbr_b, memory, calls, last>>
    /\ UNCHANGED <<pkgVars, instVars>>

BuildMbrB ==
    /\ mbr_pc = "a_built"
    /\ mbr_b' = build_mbr_b(memory_map)
    /\ mbr_pc' = "done"
    /\ UNCHANGED <<memory_map, mbr_a, memory, calls, last>>
    /\ UNCHANGED <<pkgVars, instVars>>

NextMbr == BuildMbrA \/ BuildMbrB

SpecMbr == InitMbr /\ [][NextMbr]_vars

\* The little-endian 32-bit value of four bytes.
DecodeLE32(b) == b[1] + 256 * b[2] + 65536 * b[3] + 16777216 * b[4]

\* C9: the two MBRs are 512 bytes each and byte-identical except that the
\* 16-byte entries at offsets 446 and 462 are exchanged: rootfs A is entry 0
\* of A and entry 1 of B, rootfs B is entry 1 of A and entry 0 of B; entries
\* 2 and 3, the disk id 11 22 33 44 and the signature 55 AA are the same.
C9_MbrVariants ==
    mbr_pc = "done" =>
        /\ Len(mbr_a) = 512 /\ Len(mbr_b) = 512
        /\ Slice(mbr_a, 446, 462) = Slice(mbr_b, 462, 478)
        /\ Slice(mbr_a, 462, 478) = Slice(mbr_b, 446, 462)
        /\ \A i \in (1..446) \cup (479..512) : mbr_a[i] = mbr_b[i]
        /\ DecodeLE32(Slice(mbr_a, 454, 458))
              = memory_map["rootfs_a_partition_start"]
        /\ DecodeLE32(Slice(mbr_a, 470, 474))
              = memory_map["rootfs_b_partition_start"]
        /\ Slice(mbr_a, 440, 444) = <<17, 34, 51, 68>>
        /\ Slice(mbr_a, 510, 512) = <<85, 170>>

\* C9 witness: both variants built from a map whose two root partitions
\* differ, so that the variants differ, the working and debug entries differ
\* from each other, and rootfs B starts beyond the first cylinder.
C9_Witness ==
    /\ mbr_pc = "done"
    /\ mbr_a # mbr_b
    /\ memory_map["rootfs_b_partition_start"] >= 65536
    /\ Slice(mbr_a, 478, 494) # Slice(mbr_a, 494, 510)

----------------------------------------------------------------------------
(* RBL descriptors *)

\* The 32-bit constants as their four bytes, most significant first (they do
\* not fit a signed 32-bit integer).
UBL_MAGIC_NUM == <<161, 172, 237, 0>>          \* 0xA1ACED00
UBL_ENTRY_POINT == <<0, 0, 1, 0>>              \* 0x00000100
UBL_LOAD_ADDRESS == <<0, 0, 0, 0>>             \* 0x00000000
UBOOT_MAGIC_NUM == <<161, 172, 237, 102>>      \* 0xA1ACED66
UBOOT_LOAD_ADDRESS == <<129, 8, 0, 0>>         \* 0x81080000
UBOOT_ENTRY_POINT == UBOOT_LOAD_ADDRESS

\* struct.pack('<I', w) of a constant given by its bytes
PackConst(w) == <<w[4], w[3], w[2], w[1]>>

\* struct.pack('<I', n) of a number
PackInt(n) == <<ByteOf(n, 0), ByteOf(n, 1), ByteOf(n, 2), ByteOf(n, 3)>>

\* n copies of a byte string:  b * n
Repeat(b, n) == [i \in 1..(n * Len(b)) |-> b[((i - 1) % Len(b)) + 1]]

build_rbl_descriptor(magic, entry_point, num_blocks, start_block, load_address) ==
    LET header == PackConst(magic) \o PackConst(entry_point) \o PackInt(num_blocks)
                      \o PackInt(start_block) \o PackConst(load_address)
    IN SetSlice(Zeros(128 * 4), 0, Len(header), header)

build_ubl_descriptor_block(mm) ==
    Repeat(build_rbl_descriptor(UBL_MAGIC_NUM, UBL_ENTRY_POINT, mm["ubl_count"],
                                mm["ubl_start"], UBL_LOAD_ADDRESS),
           mm["ubl_sig_count"])

build_uboot_descriptor_block(mm) ==
    Repeat(build_rbl_descriptor(UBOOT_MAGIC_NUM, UBOOT_ENTRY_POINT, mm["uboot_count"],
                                mm["uboot_start"], UBOOT_LOAD_ADDRESS),
           mm["uboot_sig_count"])

build_uboot_environment_block(mm) == Zeros(mm["uboot_env_count"] * BLOCK_SIZE)

\* hashlib.sha1(...).hexdigest(): a digest that identifies the bytes hashed
\* (no collisions).
sha1(bytes) == <<"sha1", bytes>>

----------------------------------------------------------------------------
(* build_boot_img, build_complete_img *)

\* read_file(filename) of a readable file: all its bytes.
read_file(f) == Blob(f.size, f.tag)

Raised == [raised |-> TRUE, memory |-> <<>>]

\* The next locate of a builder: skipped once an earlier one has raised.
Then(r, block_offset, block_count, contents) ==
    IF r.raised THEN r ELSE locate(r.memory, block_offset, block_count, contents)

\* The keys of the memory map build_boot_img reads (those of build_mbr_a too).
BootKeys ==
    MbrKeys \cup {"ubl_sig_start", "ubl_sig_count", "uboot_sig_start",
                  "uboot_sig_count", "uboot_env_start", "uboot_env_count",
                  "ubl_start", "ubl_count", "uboot_start", "uboot_count"}

\* A missing key (KeyError), an unreadable input (IOError) and a placement
\* that raises all abort the builder.
build_boot_img(mm, fs) ==
    IF ~(BootKeys \subseteq DOMAIN mm) \/ ~fs.ubl.readable \/ ~fs.uboot.readable
    THEN Raised
    ELSE LET r1 == locate(<<>>, 0, 1, build_mbr_a(mm))
             r2 == Then(r1, mm["ubl_sig_start"], mm["ubl_sig_count"],
                        build_ubl_descriptor_block(mm))
             r3 == Then(r2, mm["uboot_sig_start"], mm["uboot_sig_count"],
                        build_uboot_descriptor_block(mm))
             r4 == Then(r3, mm["uboot_env_start"], mm["uboot_env_count"],
                        build_uboot_environment_block(mm))
             r5 == Then(r4, mm["ubl_start"], mm["ubl_count"], read_file(fs.ubl))
             r6 == Then(r5, mm["uboot_start"], mm["uboot_count"], read_file(fs.uboot))
         IN r6

build_complete_img(mm, fs) ==
    LET b == build_boot_img(mm, fs)
    IN IF b.raised \/ ~fs.rootfs.readable
       THEN Raised
       ELSE LET r1 == locate(b.memory, mm["rootfs_a_partition_start"],
                             mm["rootfs_a_partition_count"], read_file(fs.rootfs))
                r2 == Then(r1, mm["debug_partition_start"],
                           mm["debug_partition_count"], Zeros(32 * BLOCK_SIZE))
                r3 == Then(r2, mm["working_partition_start"],
                           mm["working_partition_count"], Zeros(32 * BLOCK_SIZE))
            IN r3

----------------------------------------------------------------------------
(* build_script, create_firmware_package *)

\* The values template.substitute puts into script_template.
build_script(mm, a, fileinfo) ==
    [version |-> a.version,
     mbr_a_img_size |-> fileinfo["data/mbr-a.img"][1],
     mbr_b_img_size |-> fileinfo["data/mbr-b.img"][1],
     boot_img_size |-> fileinfo["data/boot.img"][1],
     rootfs_img_size |-> fileinfo["data/rootfs.img"][1],
     boot_img_sha1 |-> fileinfo["data/boot.img"][2],
     mbr_a_img_sha1 |-> fileinfo["data/mbr-a.img"][2],
     mbr_b_img_sha1 |-> fileinfo["data/mbr-b.img"][2],
     rootfs_img_sha1 |-> fileinfo["data/rootfs.img"][2],
     rootfs_a_partition_start |-> mm["rootfs_a_partition_start"],
     rootfs_b_partition_start |-> mm["rootfs_b_partition_start"],
     working_partition_start |-> mm["working_partition_start"],
     debug_partition_count |-> mm["debug_partition_count"],
     force_bootloader |-> IF a.bootloader THEN "true" ELSE "false",
     additional_checks |-> a.additional_checks]

NoPackage == [raised |-> TRUE, package |-> <<>>]

\* Everything is built before the archive is opened.  args.additional_checks
\* is an attribute only when -t was given: without it build_script raises
\* AttributeError.
create_firmware_package(mm, a, fs) ==
    IF ~(MbrKeys \subseteq DOMAIN mm)
    THEN NoPackage
    ELSE LET a_img == build_mbr_a(mm)
             b_img == build_mbr_b(mm)
             boot == build_boot_img(mm, fs)
         IN IF boot.raised \/ ~fs.rootfs.readable
                \/ "additional_checks" \notin DOMAIN a
            THEN NoPackage
            ELSE LET rootfs == read_file(fs.rootfs)
                     fileinfo ==
                         [n \in {"data/mbr-a.img", "data/mbr-b.img",
                                 "data/boot.img", "data/rootfs.img"} |->
                            CASE n = "data/mbr-a.img" -> <<Len(a_img), sha1(a_img)>>
                              [] n = "data/mbr-b.img" -> <<Len(b_img), sha1(b_img)>>
                              [] n = "data/boot.img" ->
                                    <<Len(boot.memory), sha1(boot.memory)>>
                              [] n = "data/rootfs.img" -> <<Len(rootfs), sha1(rootfs)>>]
                     script == build_script(mm, a, fileinfo)
                 IN [raised |-> FALSE,
                     package |->
                        [n \in {"install.sh", "data/mbr-a.img", "data/mbr-b.img",
                                "data/rootfs.img", "data/boot.img"} |->
                            CASE n = "install.sh" -> script
                              [] n = "data/mbr-a.img" -> a_img
                              [] n = "data/mbr-b.img" -> b_img
                              [] n = "data/rootfs.img" -> rootfs
                              [] n = "data/boot.img" -> boot.memory]]

----------------------------------------------------------------------------
(* Spec: one run of the packager, from the parsed command line on *)

\* A memory map whose regions follow each other without overlap: block 0 is
\* the MBR, then either the descriptor regions and the environment followed
\* by the two loaders, or the loaders first.
LayoutMap(sig, ubl_count, uboot_count, bins_first) ==
    LET after == 2 + 2 * sig + ubl_count + uboot_count
    IN [ubl_sig_start |-> IF bins_first THEN 1 + ubl_count + uboot_count ELSE 1,
        ubl_sig_count |-> sig,
        uboot_sig_start |-> IF bins_first THEN 1 + ubl_count + uboot_count + sig
                            ELSE 1 + sig,
        uboot_sig_count |-> sig,
        uboot_env_start |-> IF bins_first THEN 1 + ubl_count + uboot_count + 2 * sig
                            ELSE 1 + 2 * sig,
        uboot_env_count |-> 1,
        ubl_start |-> IF bins_first THEN 1 ELSE 2 + 2 * sig,
        ubl_count |-> ubl_count,
        uboot_start |-> IF bins_first THEN 1 + ubl_count ELSE 2 + 2 * sig + ubl_count,
        uboot_count |-> uboot_count,
        rootfs_a_partition_start |-> after, rootfs_a_partition_count |-> 2,
        rootfs_b_partition_start |-> after + 2, rootfs_b_partition_count |-> 2,
        debug_partition_start |-> after + 4, debug_partition_count |-> 32,
        working_partition_start |-> after + 36, working_partition_count |-> 32]

LayoutMaps ==
    {LayoutMap(sig, c1, c2, bf) :
        sig \in 1..MaxSigCount, c1 \in 1..MaxBinCount, c2 \in 1..MaxBinCount,
        bf \in BOOLEAN}

\* A map that lacks a key the builders read.
Without(mm, key) == [k \in (DOMAIN mm) \ {key} |-> mm[k]]

BrokenMaps == {Without(LayoutMap(1, 1, 1, FALSE), "uboot_env_count"),
               Without(LayoutMap(1, 1, 1, FALSE), "debug_partition_start")}

\* The end-to-end scenario: its six keys, and the other keys in a layout that
\* puts the working and debug partitions behind the root partitions, in one
\* that declares them inside the U-Boot region, and in one whose partitions
\* are smaller than the 32-block stub.
ScenarioMap(w_start, w_count, d_start, d_count) ==
    [ubl_start |-> 1, ubl_count |-> 10, uboot_start |-> 20, uboot_count |-> 50,
     rootfs_a_partition_start |-> 100, rootfs_a_partition_count |-> 1000,
     ubl_sig_start |-> 11, ubl_sig_count |-> 1,
     uboot_sig_start |-> 12, uboot_sig_count |-> 1,
     uboot_env_start |-> 13, uboot_env_count |-> 1,
     rootfs_b_partition_start |-> 1100, rootfs_b_partition_count |-> 1000,
     working_partition_start |-> w_start, working_partition_count |-> w_count,
     debug_partition_start |-> d_start, debug_partition_count |-> d_count]

ScenarioMaps == {ScenarioMap(1100, 32, 1132, 32),
                 ScenarioMap(30, 32, 62, 32),
                 ScenarioMap(70, 30, 14, 6)}

\* An input binary on disk: whether it can be opened, and the size and the
\* pattern of its bytes.
InputFile(n, tag) == [readable |-> TRUE, size |-> n, tag |-> tag]

Unreadable == [readable |-> FALSE, size |-> 0, tag |-> 0]

FileLens == {100} \cup {k * BLOCK_SIZE : k \in 1..(MaxBinCount + 1)}

LayoutFiles ==
    {[ubl |-> InputFile(n1, 1), uboot |-> InputFile(n2, 2), rootfs |-> InputFile(n3, 3)] :
        n1 \in FileLens, n2 \in {100, (MaxBinCount + 1) * BLOCK_SIZE},
        n3 \in {700, 3 * BLOCK_SIZE}}
    \cup {[ubl |-> Unreadable, uboot |-> InputFile(100, 2), rootfs |-> InputFile(700, 3)],
          [ubl |-> InputFile(100, 1), uboot |-> InputFile(100, 2), rootfs |-> Unreadable]}

ScenarioFiles ==
    [ubl |-> InputFile(2048, 1), uboot |-> InputFile(4096, 2),
     rootfs |-> InputFile(64000, 3)]

\* class Args after option parsing: additional_checks is an attribute only
\* when -t was given.
ArgsOf(fw, img, checks) ==
    IF checks
    THEN [bootloader |-> FALSE, fwfile |-> fw, imgfile |-> img, version |-> "Unknown",
          additional_checks |-> "checks"]
    ELSE [bootloader |-> FALSE, fwfile |-> fw, imgfile |-> img, version |-> "Unknown"]

ArgChoices == {ArgsOf(TRUE, FALSE, TRUE), ArgsOf(FALSE, TRUE, FALSE),
               ArgsOf(TRUE, TRUE, TRUE), ArgsOf(TRUE, TRUE, FALSE),
               ArgsOf(FALSE, FALSE, FALSE)}

PlainFiles ==
    [ubl |-> InputFile(100, 1), uboot |-> InputFile(100, 2), rootfs |-> InputFile(700, 3)]

\* The memory map, the input binaries and the command line of the run.
Inputs(mm, fs, a) ==
    /\ memory_map = mm
    /\ files = fs
    /\ args = a

Init ==
    /\ \/ \E mm \in LayoutMaps, fs \in LayoutFiles, a \in ArgChoices : Inputs(mm, fs, a)
       \/ \E mm \in BrokenMaps, a \in ArgChoices : Inputs(mm, PlainFiles, a)
       \/ \E mm \in ScenarioMaps :
             Inputs(mm, ScenarioFiles, ArgsOf(FALSE, TRUE, FALSE))
    /\ pc = "start"
    /\ fwfile = NoFile
    /\ imgfile = NoFile
    /\ LocIdle
    /\ mbr_a = <<>> /\ mbr_b = <<>> /\ mbr_pc = "idle"
    /\ InstIdle

\* if (args.fwfile != None): create_firmware_package(memory_map, args)
CreateFirmwarePackage ==
    /\ pc = "start"
    /\ args.fwfile
    /\ LET r == create_firmware_package(memory_map, args, files)
       IN IF r.raised
          THEN pc' = "aborted" /\ UNCHANGED fwfile
          ELSE pc' = "packaged" /\ fwfile' = [exists |-> TRUE, data |-> r.package]
    /\ UNCHANGED <<memory_map, args, files, imgfile>>
    /\ UNCHANGED <<locVars, mbrVars, instVars>>

SkipPackage ==
    /\ pc = "start"
    /\ ~args.fwfile
    /\ pc' = "packaged"
    /\ UNCHANGED <<memory_map, args, files, fwfile, imgfile>>
    /\ UNCHANGED <<locVars, mbrVars, instVars>>

\* if (args.imgfile != None): create_firmware_image(memory_map, args), which
\* opens the file for writing and then builds the image.
CreateFirmwareImage ==
    /\ pc = "packaged"
    /\ args.imgfile
    /\ LET r == build_complete_img(memory_map, files)
       IN IF r.raised
          THEN pc' = "aborted" /\ imgfile' = [exists |-> TRUE, data |-> <<>>]
          ELSE pc' = "done"
               /\ imgfile' = [exists |-> TRUE, data |-> FileBlocks(r.memory)]
    /\ UNCHANGED <<memory_map, args, files, fwfile>>
    /\ UNCHANGED <<locVars, mbrVars, instVars>>

SkipImage ==
    /\ pc = "packaged"
    /\ ~args.imgfile
    /\ pc' = "done"
    /\ UNCHANGED <<memory_map, args, files, fwfile, imgfile>>
    /\ UNCHANGED <<locVars, mbrVars, instVars>>

Next == CreateFirmwarePackage \/ SkipPackage \/ CreateFirmwareImage \/ SkipImage

Spec == Init /\ [][Next]_vars

\* The run wrote a flat image; its bytes.
ImageWritten == pc = "done" /\ args.imgfile

Image == FileBytes(imgfile.data)

\* The block ranges the memory map declares, as <<start, count>>.
Regions(mm) ==
    << <<0, 1>>,
       <<mm["ubl_sig_start"], mm["ubl_sig_count"]>>,
       <<mm["uboot_sig_start"], mm["uboot_sig_count"]>>,
       <<mm["uboot_env_start"], mm["uboot_env_count"]>>,
       <<mm["ubl_start"], mm["ubl_count"]>>,
       <<mm["uboot_start"], mm["uboot_count"]>>,
       <<mm["rootfs_a_partition_start"], mm["rootfs_a_partition_count"]>>,
       <<mm["debug_partition_start"], mm["debug_partition_count"]>>,
       <<mm["working_partition_start"], mm["working_partition_count"]>> >>

RegionsDisjoint(mm) ==
    /\ BootKeys \subseteq DOMAIN mm
    /\ \A i, j \in 1..9 :
          i < j => LET p == Regions(mm)[i]
                       q == Regions(mm)[j]
                   IN p[1] + p[2] <= q[1] \/ q[1] + q[2] <= p[1]

\* The bytes of image img at block offset block: as many as contents has.
FoundAt(img, block, contents) ==
    /\ Len(img) >= block * BLOCK_SIZE + Len(contents)
    /\ Slice(img, block * BLOCK_SIZE, block * BLOCK_SIZE + Len(contents)) = contents

\* C3: with pairwise disjoint regions, an image that is returned holds every
\* placed component byte for byte at its configured offset.
C3_ComponentsInPlace ==
    (ImageWritten /\ RegionsDisjoint(memory_map)) =>
        /\ FoundAt(Image, 0, build_mbr_a(memory_map))
        /\ FoundAt(Image, memory_map["ubl_sig_start"],
                   build_ubl_descriptor_block(memory_map))
        /\ FoundAt(Image, memory_map["uboot_sig_start"],
                   build_uboot_descriptor_block(memory_map))
        /\ FoundAt(Image, memory_map["ubl_start"], read_file(files.ubl))
        /\ FoundAt(Image, memory_map["uboot_start"], read_file(files.uboot))
        /\ FoundAt(Image, memory_map["rootfs_a_partition_start"],
                   read_file(files.rootfs))

\* C4: when the run aborts, no output file has been created or written.
C4_NoOutputOnError ==
    pc = "aborted" => (~fwfile.exists /\ ~imgfile.exists)

\* The end-to-end scenario of the testable properties.
IsScenario ==
    /\ BootKeys \subseteq DOMAIN memory_map
    /\ memory_map["ubl_start"] = 1 /\ memory_map["ubl_count"] = 10
    /\ memory_map["uboot_start"] = 20 /\ memory_map["uboot_count"] = 50
    /\ memory_map["rootfs_a_partition_start"] = 100
    /\ memory_map["rootfs_a_partition_count"] = 1000
    /\ files.ubl.readable /\ Len(read_file(files.ubl)) = 2048
    /\ files.uboot.readable /\ Len(read_file(files.uboot)) = 4096
    /\ files.rootfs.readable /\ files.rootfs.size = 64000

----------------------------------------------------------------------------
(* SpecInstaller: install.sh, the script build_script renders, run against *)
(* a firmware package and a destination device                             *)

\* A map with the two root partitions in the other order on the device.
RootsSwapped(mm) ==
    [mm EXCEPT !["rootfs_a_partition_start"] = mm["rootfs_b_partition_start"],
               !["rootfs_b_partition_start"] = mm["rootfs_a_partition_start"]]

InstallMaps ==
    {LayoutMap(sig, 1, 1, FALSE) : sig \in 1..MaxSigCount}
        \cup {RootsSwapped(LayoutMap(1, 1, 1, FALSE))}

InstallFiles ==
    [ubl |-> InputFile(4, 1), uboot |-> InputFile(4, 2), rootfs |-> InputFile(6, 3)]

\* The packager's command line: -b or not, -f, -t given.
PackArgs(b) ==
    [bootloader |-> b, fwfile |-> TRUE, imgfile |-> FALSE, version |-> "1.0",
     additional_checks |-> "checks"]

DataEntries == {"data/mbr-a.img", "data/mbr-b.img", "data/boot.img", "data/rootfs.img"}

\* Bytes that differ from b in the first byte.
Corrupt(b) == [b EXCEPT ![1] = (b[1] + 1) % 256]

\* The package with entry name damaged ("none": the package as built).
Damaged(pkg, name) ==
    IF name = "none" THEN pkg ELSE [pkg EXCEPT ![name] = Corrupt(pkg[name])]

\* The command line of install.sh (-a, -d, -f, -b, -v) and the two facts
\* about the destination the script tests.
Options(a, d, f, b, v, w, m) ==
    [archive |-> a, dest |-> d, f |-> f, b |-> b, v |-> v,
     writable |-> w, mounted |-> m]

OptionChoices ==
    {Options(TRUE, TRUE, f, b, FALSE, TRUE, FALSE) : f \in BOOLEAN, b \in BOOLEAN}
        \cup {Options(FALSE, TRUE, FALSE, FALSE, FALSE, TRUE, FALSE),
              Options(TRUE, FALSE, FALSE, FALSE, FALSE, TRUE, FALSE),
              Options(TRUE, TRUE, FALSE, FALSE, FALSE, FALSE, FALSE),
              Options(TRUE, TRUE, FALSE, FALSE, FALSE, TRUE, TRUE),
              Options(TRUE, TRUE, FALSE, FALSE, TRUE, TRUE, FALSE)}

\* The shell at the first line of the script.
StartShell ==
    [pc |-> "start", updatebootloader |-> FALSE, freshinstall |-> FALSE,
     part1_blockno |-> 0, part2_blockno |-> 0, message |-> "", sent |-> 0]

NoBg == [pc |-> "none", digest |-> <<>>]

NoTmp == [fifo |-> <<>>, writer_closed |-> FALSE,
          checksumout |-> [exists |-> FALSE, text |-> <<>>]]

InitInstaller ==
    /\ memory_map \in InstallMaps
    /\ files = InstallFiles
    /\ args \in {PackArgs(b) : b \in BOOLEAN}
    /\ \E bad \in DataEntries \cup {"none"} :
          archive = Damaged(create_firmware_package(memory_map, args, files).package, bad)
    /\ opts \in OptionChoices
    /\ dev_mbr \in {build_mbr_a(memory_map), build_mbr_b(memory_map)}
                      \cup (IF opts.f THEN {Zeros(512)} ELSE {})
    /\ mbr_at_start = dev_mbr
    /\ writes = <<>>
    /\ runs = 1
    /\ sh = StartShell
    /\ bg = NoBg
    /\ tmp = NoTmp
    /\ pc = "idle" /\ fwfile = NoFile /\ imgfile = NoFile
    /\ LocIdle
    /\ mbr_a = <<>> /\ mbr_b = <<>> /\ mbr_pc = "idle"

\* The values substituted into the script being run.
Script == archive["install.sh"]

\* `unzip -p "$archive" name | sha1sum | cut -b 1-40`
Sha1Sum(name) == sha1(archive[name])

\* The digest the script holds for an entry.
Sha1InScript(name) ==
    CASE name = "data/boot.img" -> Script.boot_img_sha1
      [] name = "data/rootfs.img" -> Script.rootfs_img_sha1
      [] name = "data/mbr-a.img" -> Script.mbr_a_img_sha1
      [] name = "data/mbr-b.img" -> Script.mbr_b_img_sha1

\* echo message; exit 1
Exit1(message) == [sh EXCEPT !.pc = "exit1", !.message = message]

\* A dd to the destination: the source, the output (the whole device or its
\* second partition, which starts where the live MBR says), seek and skip in
\* 512-byte blocks.
Write(src, of, seek, skip) ==
    [src |-> src, of |-> of, seek |-> seek, skip |-> skip,
     part_start |-> IF of = "partition2" THEN DecodeLE32(Slice(dev_mbr, 470, 474))
                    ELSE 0]

\* The rootfs entry as the chunks that flow through the pipeline.
NumChunks == MaxChunks

RootfsChunk(k) ==
    LET b == archive["data/rootfs.img"]
        size == (Len(b) + NumChunks - 1) \div NumChunks
    IN Slice(b, (k - 1) * size, k * size)

instUnused == <<memory_map, args, files, pc, fwfile, imgfile, locVars, mbrVars>>

\* The option loop: -v prints the version and exits 0; -b sets
\* updatebootloader, which starts as $force_bootloader; -f sets freshinstall.
ParseOptions ==
    /\ sh.pc = "start"
    /\ sh' = IF opts.v
             THEN [sh EXCEPT !.pc = "exit0", !.message = Script.version]
             ELSE [sh EXCEPT !.pc = "check_args",
                             !.updatebootloader =
                                 (Script.force_bootloader = "true") \/ opts.b,
                             !.freshinstall = opts.f]
    /\ UNCHANGED <<archive, opts, dev_mbr, mbr_at_start, writes, runs, bg, tmp>>
    /\ UNCHANGED instUnused

CheckArgs ==
    /\ sh.pc = "check_args"
    /\ sh' = IF ~opts.dest THEN Exit1("Specify a destination")
             ELSE IF ~opts.archive THEN Exit1("Specify the archive name")
             ELSE [sh EXCEPT !.pc = "check_dest"]
    /\ UNCHANGED <<archive, opts, dev_mbr, mbr_at_start, writes, runs, bg, tmp>>
    /\ UNCHANGED instUnused

\* The destination must be writable and not mounted; $additional_checks
\* follows (a fragment that passes).
CheckDestination ==
    /\ sh.pc = "check_dest"
    /\ sh' = IF ~opts.writable THEN Exit1("Cannot write")
             ELSE IF opts.mounted THEN Exit1("must not be mounted")
             ELSE [sh EXCEPT !.pc = IF sh.freshinstall THEN "fresh_verify_boot"
                                    ELSE "update_spawn"]
    /\ UNCHANGED <<archive, opts, dev_mbr, mbr_at_start, writes, runs, bg, tmp>>
    /\ UNCHANGED instUnused

FreshVerifyBoot ==
    /\ sh.pc = "fresh_verify_boot"
    /\ sh' = IF Sha1Sum("data/boot.img") # Script.boot_img_sha1
             THEN Exit1("SHA-1 mismatch on data/boot.img")
             ELSE [sh EXCEPT !.pc = "fresh_verify_rootfs"]
    /\ UNCHANGED <<archive, opts, dev_mbr, mbr_at_start, writes, runs, bg, tmp>>
    /\ UNCHANGED instUnused

FreshVerifyRootfs ==
    /\ sh.pc = "fresh_verify_rootfs"
    /\ sh' = IF Sha1Sum("data/rootfs.img") # Script.rootfs_img_sha1
             THEN Exit1("SHA-1 mismatch on data/rootfs.img")
             ELSE [sh EXCEPT !.pc = "fresh_write_boot"]
    /\ UNCHANGED <<archive, opts, dev_mbr, mbr_at_start, writes, runs, bg, tmp>>
    /\ UNCHANGED instUnused

\* dd of=$dest seek=0 bs=128k : boot.img from block 0 on, the MBR included.
FreshWriteBoot ==
    /\ sh.pc = "fresh_write_boot"
    /\ writes' = Append(writes, Write("data/boot.img", "dest", 0, 0))
    /\ dev_mbr' = LET b == Slice(archive["data/boot.img"], 0, 512)
                  IN SetSlice(dev_mbr, 0, Len(b), b)
    /\ sh' = [sh EXCEPT !.pc = "fresh_write_rootfs_a"]
    /\ UNCHANGED <<archive, opts, mbr_at_start, runs, bg, tmp>>
    /\ UNCHANGED instUnused

FreshWriteRootfsA ==
    /\ sh.pc = "fresh_write_rootfs_a"
    /\ writes' = Append(writes, Write("data/rootfs.img", "dest",
                                      Script.rootfs_a_partition_start, 0))
    /\ sh' = [sh EXCEPT !.pc = "fresh_write_rootfs_b"]
    /\ UNCHANGED <<archive, opts, dev_mbr, mbr_at_start, runs, bg, tmp>>
    /\ UNCHANGED instUnused

FreshWriteRootfsB ==
    /\ sh.pc = "fresh_write_rootfs_b"
    /\ writes' = Append(writes, Write("data/rootfs.img", "dest",
                                      Script.rootfs_b_partition_start, 0))
    /\ sh' = [sh EXCEPT !.pc = "fresh_zero_debug"]
    /\ UNCHANGED <<archive, opts, dev_mbr, mbr_at_start, runs, bg, tmp>>
    /\ UNCHANGED instUnused

\* dd if=/dev/zero count=32 | ... | dd of=$dest seek=$debug_partition_count
FreshZeroDebug ==
    /\ sh.pc = "fresh_zero_debug"
    /\ writes' = Append(writes, Write("/dev/zero", "dest",
                                      Script.debug_partition_count, 0))
    /\ sh' = [sh EXCEPT !.pc = "fresh_zero_working"]
    /\ UNCHANGED <<archive, opts, dev_mbr, mbr_at_start, runs, bg, tmp>>
    /\ UNCHANGED instUnused

\* dd if=/dev/zero count=32 | ... | dd of=$dest seek=$working_partition_start
FreshZeroWorking ==
    /\ sh.pc = "fresh_zero_working"
    /\ writes' = Append(writes, Write("/dev/zero", "dest",
                                      Script.working_partition_start, 0))
    /\ sh' = [sh EXCEPT !.pc = "exit0"]
    /\ UNCHANGED <<archive, opts, dev_mbr, mbr_at_start, runs, bg, tmp>>
    /\ UNCHANGED instUnused

\* mktemp -d; mkfifo $checksumfifo; sha1sum $checksumfifo > $checksumout &
UpdateSpawn ==
    /\ sh.pc = "update_spawn"
    /\ bg' = [pc |-> "forked", digest |-> <<>>]
    /\ tmp' = NoTmp
    /\ sh' = [sh EXCEPT !.pc = "pipeline"]
    /\ UNCHANGED <<archive, opts, dev_mbr, mbr_at_start, writes, runs>>
    /\ UNCHANGED instUnused

\* The background shell opens $checksumout for the redirection.
BgCreateOut ==
    /\ bg.pc = "forked"
    /\ tmp' = [tmp EXCEPT !.checksumout = [exists |-> TRUE, text |-> <<>>]]
    /\ bg' = [bg EXCEPT !.pc = "opening"]
    /\ UNCHANGED <<archive, opts, dev_mbr, mbr_at_start, writes, runs, sh>>
    /\ UNCHANGED instUnused

\* sha1sum opens the fifo for reading; the open returns once tee has it open
\* for writing.
BgOpenFifo ==
    /\ bg.pc = "opening"
    /\ sh.pc = "pipeline"
    /\ bg' = [bg EXCEPT !.pc = "reading"]
    /\ UNCHANGED <<archive, opts, dev_mbr, mbr_at_start, writes, runs, sh, tmp>>
    /\ UNCHANGED instUnused

\* unzip -p | tee $checksumfifo | pv | dd of=$partition2 : tee passes on the
\* next chunk, to the fifo and to dd.
TeeWrite ==
    /\ sh.pc = "pipeline"
    /\ bg.pc = "reading"
    /\ sh.sent < NumChunks
    /\ tmp' = [tmp EXCEPT !.fifo = Append(@, RootfsChunk(sh.sent + 1))]
    /\ sh' = [sh EXCEPT !.sent = @ + 1]
    /\ UNCHANGED <<archive, opts, dev_mbr, mbr_at_start, writes, runs, bg>>
    /\ UNCHANGED instUnused

\* The pipeline ends: tee has closed the fifo, dd has written the partition.
\* The script goes on without waiting for the background job.
PipelineDone ==
    /\ sh.pc = "pipeline"
    /\ bg.pc = "reading"
    /\ sh.sent = NumChunks
    /\ tmp' = [tmp EXCEPT !.writer_closed = TRUE]
    /\ writes' = Append(writes, Write("data/rootfs.img", "partition2", 0, 0))
    /\ sh' = [sh EXCEPT !.pc = "compare"]
    /\ UNCHANGED <<archive, opts, dev_mbr, mbr_at_start, runs, bg>>
    /\ UNCHANGED instUnused

\* sha1sum reads what the fifo holds.
BgRead ==
    /\ bg.pc = "reading"
    /\ tmp.fifo # <<>>
    /\ bg' = [bg EXCEPT !.digest = @ \o Head(tmp.fifo)]
    /\ tmp' = [tmp EXCEPT !.fifo = Tail(@)]
    /\ UNCHANGED <<archive, opts, dev_mbr, mbr_at_start, writes, runs, sh>>
    /\ UNCHANGED instUnused

\* End of file on the fifo: sha1sum prints the digest into $checksumout.
BgFinish ==
    /\ bg.pc = "reading"
    /\ tmp.fifo = <<>>
    /\ tmp.writer_closed
    /\ tmp' = [tmp EXCEPT !.checksumout = [exists |-> TRUE, text |-> sha1(bg.digest)]]
    /\ bg' = [bg EXCEPT !.pc = "done"]
    /\ UNCHANGED <<archive, opts, dev_mbr, mbr_at_start, writes, runs, sh>>
    /\ UNCHANGED instUnused

\* if [ "`cat $checksumout | cut -b 1-40`" != "$rootfs_img_sha1" ]
UpdateCompare ==
    /\ sh.pc = "compare"
    /\ sh' = IF tmp.checksumout.text # Script.rootfs_img_sha1
             THEN Exit1("SHA-1 mismatch on rootfs")
             ELSE [sh EXCEPT !.pc = "read_offsets"]
    /\ UNCHANGED <<archive, opts, dev_mbr, mbr_at_start, writes, runs, bg, tmp>>
    /\ UNCHANGED instUnused

\* part1_blockno and part2_blockno: four bytes each at 454 and at 470.
ReadOffsets ==
    /\ sh.pc = "read_offsets"
    /\ sh' = [sh EXCEPT !.pc = "bootloader",
                        !.part1_blockno = DecodeLE32(Slice(dev_mbr, 454, 458)),
                        !.part2_blockno = DecodeLE32(Slice(dev_mbr, 470, 474))]
    /\ UNCHANGED <<archive, opts, dev_mbr, mbr_at_start, writes, runs, bg, tmp>>
    /\ UNCHANGED instUnused

\* if [ $updatebootloader = true ]: boot.img without its first block, from
\* block 1 of the destination on.
UpdateBootloader ==
    /\ sh.pc = "bootloader"
    /\ writes' = IF sh.updatebootloader
                 THEN Append(writes, Write("data/boot.img", "dest", 1, 1))
                 ELSE writes
    /\ sh' = [sh EXCEPT !.pc = "switch_verify"]
    /\ UNCHANGED <<archive, opts, dev_mbr, mbr_at_start, runs, bg, tmp>>
    /\ UNCHANGED instUnused

\* The MBR variant the script switches to.
SwitchTo ==
    IF sh.part1_blockno > sh.part2_blockno THEN "data/mbr-a.img" ELSE "data/mbr-b.img"

SwitchVerify ==
    /\ sh.pc = "switch_verify"
    /\ sh' = IF Sha1Sum(SwitchTo) # Sha1InScript(SwitchTo)
             THEN Exit1(IF SwitchTo = "data/mbr-a.img" THEN "SHA-1 mismatch on mbr-a"
                        ELSE "SHA-1 mismatch on mbr-b")
             ELSE [sh EXCEPT !.pc = "switch_write"]
    /\ UNCHANGED <<archive, opts, dev_mbr, mbr_at_start, writes, runs, bg, tmp>>
    /\ UNCHANGED instUnused

\* dd of=$dest seek=0 of the variant; rm -fr $tmpdir; exit 0
SwitchWrite ==
    /\ sh.pc = "switch_write"
    /\ writes' = Append(writes, Write(SwitchTo, "dest", 0, 0))
    /\ dev_mbr' = SetSlice(dev_mbr, 0, Len(archive[SwitchTo]), archive[SwitchTo])
    /\ sh' = [sh EXCEPT !.pc = "exit0"]
    /\ UNCHANGED <<archive, opts, mbr_at_start, runs, bg, tmp>>
    /\ UNCHANGED instUnused

\* The same command is given again.
NextRun ==
    /\ sh.pc \in {"exit0", "exit1"}
    /\ runs < MaxRuns
    /\ runs' = runs + 1
    /\ sh' = StartShell
    /\ writes' = <<>>
    /\ mbr_at_start' = dev_mbr
    /\ bg' = NoBg
    /\ tmp' = NoTmp
    /\ UNCHANGED <<archive, opts, dev_mbr>>
    /\ UNCHANGED instUnused

NextInstaller ==
    \/ ParseOptions \/ CheckArgs \/ CheckDestination
    \/ FreshVerifyBoot \/ FreshVerifyRootfs \/ FreshWriteBoot
    \/ FreshWriteRootfsA \/ FreshWriteRootfsB \/ FreshZeroDebug \/ FreshZeroWorking
    \/ UpdateSpawn \/ BgCreateOut \/ BgOpenFifo \/ TeeWrite \/ PipelineDone
    \/ BgRead \/ BgFinish \/ UpdateCompare \/ ReadOffsets \/ UpdateBootloader
    \/ SwitchVerify \/ SwitchWrite \/ NextRun

SpecInstaller == InitInstaller /\ [][NextInstaller]_vars

\* The entries of the archive whose bytes are not those the script's digests
\* were computed from.
Mismatched == {n \in DataEntries : Sha1Sum(n) # Sha1InScript(n)}

UpdateDone == sh.pc = "exit0" /\ ~opts.v /\ ~sh.freshinstall

FreshDone == sh.pc = "exit0" /\ ~opts.v /\ sh.freshinstall

\* C5: an update run that exits 0 has written rootfs.img to the partition
\* the live MBR listed second and has then made that partition the first
\* entry of the MBR: the MBR is now the other variant.
C5_UpdateFlipsActive ==
    UpdateDone =>
        /\ \E i \in 1..Len(writes) :
              /\ writes[i].src = "data/rootfs.img"
              /\ writes[i].of = "partition2"
              /\ writes[i].part_start = DecodeLE32(Slice(mbr_at_start, 470, 474))
        /\ Slice(dev_mbr, 446, 462) = Slice(mbr_at_start, 462, 478)
        /\ dev_mbr # mbr_at_start
        /\ dev_mbr \in {build_mbr_a(memory_map), build_mbr_b(memory_map)}

\* C6: an entry whose digest does not match the script's is never followed
\* by another write to the destination, and the run does not exit 0 having
\* written it.
C6_MismatchStopsWrites ==
    \A i \in 1..Len(writes) :
        writes[i].src \in Mismatched =>
            /\ i = Len(writes)
            /\ sh.pc # "exit0"

\* C7: a fresh install zeroes 32 blocks at the start of the debug partition
\* and at the start of the working partition.
C7_StubsAtPartitionStarts ==
    FreshDone =>
        /\ \E i \in 1..Len(writes) :
              /\ writes[i].src = "/dev/zero"
              /\ writes[i].seek = memory_map["debug_partition_start"]
        /\ \E i \in 1..Len(writes) :
              /\ writes[i].src = "/dev/zero"
              /\ writes[i].seek = memory_map["working_partition_start"]

\* C10: the update never reports a rootfs mismatch for an archive whose
\* rootfs.img matches the script's digest.
C10_NoSpuriousMismatch ==
    (sh.pc = "exit1" /\ sh.message = "SHA-1 mismatch on rootfs")
        => "data/rootfs.img" \in Mismatched

=============================================================================
